---- MODULE Spec2Model ----
(***************************************************************************)
(* reconcilebqdata: the QueryHandler of queryhandler.py together with the  *)
(* helpers of aux.py and dbtools.py it calls.                              *)
(*                                                                         *)
(* The model follows one QueryHandler object from the constructor call     *)
(* that yields it (calls that raise yield none and can be repeated)        *)
(* through the calls of its two property setters and of update().          *)
(* The two backends are the environment: their rows can change, they can   *)
(* be unreachable, and the wall clock advances.                            *)
(*                                                                         *)
(* Python's None is the empty tuple and a set value v is <<v>>.            *)
(***************************************************************************)
EXTENDS Integers, Sequences, FiniteSets, TLC

\* ---------------------------------------------------------------- bounds
MaxId == 3
MaxRows == 2
MaxClock == 1
MaxDate == 1

\* ---------------------------------------------------------------- values
None == <<>>
Some(v) == <<v>>
IsSet(o) == o # None
Val(o) == o[1]

\* queryhandler.py:16
QUERY_CATEGORIES == {"mysql_trips", "mysql_open", "mysql_cnx", "bigquery_trips"}

\* The category arguments a caller passes: the closed set, the one further
\* recipe get_query knows, and names with and without a backend prefix.
CategoryInputs == QUERY_CATEGORIES \cup {"bigquery_cnx", "mysql_foo", "foo_bar"}

\* str.startswith on the category arguments above.
startswith(s, prefix) ==
    CASE prefix = "mysql_" -> s \in {"mysql_trips", "mysql_open", "mysql_cnx", "mysql_foo"}
      [] prefix = "bigquery_" -> s \in {"bigquery_trips", "bigquery_cnx"}
      [] OTHER -> FALSE

\* The integer pairs a caller passes as id_range.
IdValues == 0..MaxId
RangeInputs == IdValues \X IdValues

\* The identifiers and booking codes found in the backends' tables.
Ids == 1..MaxId
Codes == {"AB1", "CD2"}

\* The five recipes of get_query, named after their category.
Recipes == {"mysql_trips", "mysql_open", "mysql_cnx", "bigquery_trips", "bigquery_cnx"}
Rows == [recipe : Recipes, id : Ids, code : Codes]

\* The offsets of the host's local time from UTC, in seconds.
UtcOffsets == {-1, 0, 1}
\* The clock counts ticks; datetime's microsecond field is the part of a
\* second a tick count leaves over.
TicksPerSecond == 2

VARIABLES
    bound,                      \* TRUE once the caller's name holds a handler
    _query_category,            \* the handler's fields, None while unbound
    _id_range,
    _engine,
    _query,
    result,
    result_count_ids,
    result_count_booking_codes,
    updated_at,
    data,                       \* the rows the recipes' joins yield, in the
                                \* order the backends return them
    clock,                      \* UTC wall clock, in ticks
    op,                         \* the last call made, or "backend_write"
    raised,                     \* the exception the last call raised, or "none"
    had_result,                 \* result was set when the last call began
    executed,                   \* execute_query returned rows in the last step
    trips,                      \* the rows of base_reporting_trips
    bq_engine,                  \* the engine the last get_bq_trip_id_range made
    bq_id_range,                \* what the last get_bq_trip_id_range returned
    dict_a,                     \* the arguments of get_dict_symmetric_difference
    dict_b,
    sym_diff                    \* what get_dict_symmetric_difference returned

handler == <<_query_category, _id_range, _engine, _query,
             result, result_count_ids, result_count_booking_codes, updated_at>>
results == <<result, result_count_ids, result_count_booking_codes, updated_at>>
helpers == <<trips, bq_engine, bq_id_range, dict_a, dict_b, sym_diff>>
vars == <<bound, handler, data, clock, op, raised, had_result, executed, helpers>>

\* ----------------------------------------------------------- dbtools.py
get_engine_mysql == "mysql"
get_engine_bigquery == "bigquery"

\* The backend that holds the tables a recipe reads.
BackendOf(recipe) == IF startswith(recipe, "mysql_") THEN "mysql" ELSE "bigquery"

\* SQL's BETWEEN: both bounds inclusive, empty when low > high.
between(id, id_range) == id_range[1] <= id /\ id <= id_range[2]

\* execute_query: the rows the plan selects, in the backend's order, each
\* projected to (identifier, code).
RECURSIVE SelectRows(_, _)
SelectRows(rows, query) ==
    IF rows = <<>> THEN <<>>
    ELSE LET r == Head(rows)
             rest == SelectRows(Tail(rows), query)
         IN IF r.recipe = query.recipe /\ between(r.id, query.id_range)
            THEN <<(<<r.id, r.code>>)>> \o rest
            ELSE rest

\* The connection fails when the backend is unreachable, and the statement
\* fails on an engine that does not hold the recipe's tables.
CanExecute(engine, query, up) == up /\ BackendOf(query.recipe) = engine

execute_query(engine, query, rows) == SelectRows(rows, query)

\* --------------------------------------------------------------- aux.py
\* datetime.now(): the host's local wall time, naive.
now(utc, utcoffset) == utc + utcoffset * TicksPerSecond
\* .replace(microsecond=0, tzinfo=timezone.utc)
replace(naive) == [seconds |-> naive \div TicksPerSecond, tzinfo |-> "+00:00"]
\* .isoformat(): the seconds followed by the zone's offset.
isoformat(dt) == <<dt.seconds, dt.tzinfo>>
get_current_timestamp(utc, utcoffset) == isoformat(replace(now(utc, utcoffset)))

\* ------------------------------------------------------ queryhandler.py
\* get_engine: the backend the category's prefix selects, None when it raises.
get_engine(category) ==
    IF startswith(category, "mysql_") THEN Some(get_engine_mysql)
    ELSE IF startswith(category, "bigquery_") THEN Some(get_engine_bigquery)
    ELSE None

_query_mysql_trips(id_range) == [recipe |-> "mysql_trips", id_range |-> id_range]
_query_mysql_open(id_range) == [recipe |-> "mysql_open", id_range |-> id_range]
_query_mysql_cnx(id_range) == [recipe |-> "mysql_cnx", id_range |-> id_range]
_query_bigquery_trips(id_range) == [recipe |-> "bigquery_trips", id_range |-> id_range]
_query_bigquery_cnx(id_range) == [recipe |-> "bigquery_cnx", id_range |-> id_range]

\* get_query: the plan of the category over the range, None when it raises.
get_query(category, id_range) ==
    IF category = "mysql_trips" THEN Some(_query_mysql_trips(id_range))
    ELSE IF category = "mysql_open" THEN Some(_query_mysql_open(id_range))
    ELSE IF category = "mysql_cnx" THEN Some(_query_mysql_cnx(id_range))
    ELSE IF category = "bigquery_trips" THEN Some(_query_bigquery_trips(id_range))
    ELSE IF category = "bigquery_cnx" THEN Some(_query_bigquery_cnx(id_range))
    ELSE None

\* As QueryResult, but a key keeps the value of its first row.
RECURSIVE QueryResultFirstWins(_)
QueryResultFirstWins(rows) ==
    IF rows = <<>> THEN <<>>
    ELSE LET n == Len(rows)
             d == QueryResultFirstWins(SubSeq(rows, 1, n - 1))
             k == rows[n][1]
         IN [i \in DOMAIN d \cup {k} |-> IF i \in DOMAIN d THEN d[i] ELSE rows[n][2]]

\* QueryResult(rows): dict(rows), each row assigning its key in turn.
RECURSIVE QueryResult(_)
QueryResult(rows) ==
    IF rows = <<>> THEN <<>>
    ELSE LET n == Len(rows)
             d == QueryResult(SubSeq(rows, 1, n - 1))
             k == rows[n][1]
         IN [i \in DOMAIN d \cup {k} |-> IF i = k THEN rows[n][2] ELSE d[i]]

\* len(result)
CountIds(res) == Cardinality(DOMAIN res)
\* len(set(result.values()))
CountBookingCodes(res) == Cardinality({res[i] : i \in DOMAIN res})

\* As Counts, but each count stored in the other's field.
CountsSwapped(res) == <<CountBookingCodes(res), CountIds(res)>>

\* As Counts, but each count added to the one the handler holds.
CountsAccumulated(res) ==
    <<CountIds(res) + (IF result_count_ids = None THEN 0 ELSE Val(result_count_ids)),
      CountBookingCodes(res) +
          (IF result_count_booking_codes = None THEN 0 ELSE Val(result_count_booking_codes))>>

\* The two counts update() stores, in the order it stores them.
Counts(res) == <<CountIds(res), CountBookingCodes(res)>>

\* The range test of the id_range setter.
ValidRange(new_range) == 0 < new_range[1] /\ new_range[1] < new_range[2]

\* The membership test of the query_category setter.
ValidCategory(new_query_category) == new_query_category \in QUERY_CATEGORIES

\* As init_result, but the timestamp is left as it was.
init_result_keeps_timestamp ==
    /\ result' = None
    /\ result_count_ids' = None
    /\ result_count_booking_codes' = None
    /\ UNCHANGED updated_at

\* As init_result, but the two counts are left as they were.
init_result_keeps_counts ==
    /\ result' = None
    /\ UNCHANGED <<result_count_ids, result_count_booking_codes>>
    /\ updated_at' = None

\* init_result
init_result ==
    /\ result' = None
    /\ result_count_ids' = None
    /\ result_count_booking_codes' = None
    /\ updated_at' = None

\* A call that raises leaves the caller with what it had.
Raise(name, exc) ==
    /\ op' = name
    /\ raised' = exc
    /\ had_result' = IsSet(result)
    /\ executed' = FALSE
    /\ UNCHANGED <<bound, handler, data, clock>>

Return(name) ==
    /\ op' = name
    /\ raised' = "none"
    /\ had_result' = IsSet(result)

\* As the constructor, but it ends by running the query as update() does.
init_runs_query(query_category, id_range, up) ==
    IF get_engine(query_category) = None THEN Raise("construct", "ValueError")
    ELSE IF get_query(query_category, id_range) = None THEN Raise("construct", "ValueError")
    ELSE IF ~up THEN Raise("construct", "DBError")
    ELSE LET res == QueryResult(execute_query(Val(get_engine(query_category)),
                                              Val(get_query(query_category, id_range)),
                                              data))
         IN /\ bound' = TRUE
            /\ _query_category' = Some(query_category)
            /\ _id_range' = Some(id_range)
            /\ _engine' = get_engine(query_category)
            /\ _query' = get_query(query_category, id_range)
            /\ result' = Some(res)
            /\ result_count_ids' = Some(CountIds(res))
            /\ result_count_booking_codes' = Some(CountBookingCodes(res))
            /\ updated_at' = Some(get_current_timestamp(clock, 0))
            /\ Return("construct")
            /\ executed' = TRUE
            /\ UNCHANGED <<data, clock>>

\* QueryHandler(query_category, id_range), with the backend reachable or not
\* while the recipe loads its tables.
init(query_category, id_range, up) ==
    IF get_engine(query_category) = None THEN Raise("construct", "ValueError")
    ELSE IF get_query(query_category, id_range) = None THEN Raise("construct", "ValueError")
    ELSE IF ~up THEN Raise("construct", "DBError")
    ELSE /\ bound' = TRUE
         /\ _query_category' = Some(query_category)
         /\ _id_range' = Some(id_range)
         /\ init_result
         /\ _engine' = get_engine(query_category)
         /\ _query' = get_query(query_category, id_range)
         /\ Return("construct")
         /\ executed' = FALSE
         /\ UNCHANGED <<data, clock>>

\* The query_category setter.
set_query_category(new_query_category) ==
    IF ~ValidCategory(new_query_category) THEN Raise("set_category", "ValueError")
    ELSE IF Val(_query_category) # new_query_category
    THEN /\ init_result
         /\ _query_category' = Some(new_query_category)
         /\ Return("set_category")
         /\ executed' = FALSE
         /\ UNCHANGED <<bound, _id_range, _engine, _query, data, clock>>
    ELSE /\ Return("set_category")
         /\ executed' = FALSE
         /\ UNCHANGED <<bound, handler, data, clock>>

\* As the id_range setter, but the range is stored before it is tested.
set_id_range_stores_first(new_range) ==
    /\ _id_range' = Some(new_range)
    /\ IF ValidRange(new_range)
       THEN init_result /\ Return("set_id_range")
       ELSE /\ op' = "set_id_range"
            /\ raised' = "ValueError"
            /\ had_result' = IsSet(result)
            /\ UNCHANGED results
    /\ executed' = FALSE
    /\ UNCHANGED <<bound, _query_category, _engine, _query, data, clock>>

\* The id_range setter.
set_id_range(new_range) ==
    IF ValidRange(new_range)
    THEN /\ _id_range' = Some(new_range)
         /\ init_result
         /\ Return("set_id_range")
         /\ executed' = FALSE
         /\ UNCHANGED <<bound, _query_category, _engine, _query, data, clock>>
    ELSE Raise("set_id_range", "ValueError")

\* As update(), but the timestamp is stored before the query is executed.
update_stamps_first(up, utcoffset) ==
    LET now_ == get_current_timestamp(clock, utcoffset)
    IN /\ updated_at' = Some(now_)
       /\ IF ~CanExecute(Val(_engine), Val(_query), up)
          THEN /\ op' = "update"
               /\ raised' = "DBError"
               /\ had_result' = IsSet(result)
               /\ executed' = FALSE
               /\ UNCHANGED <<result, result_count_ids, result_count_booking_codes>>
          ELSE LET res == QueryResult(execute_query(Val(_engine), Val(_query), data))
               IN /\ result' = Some(res)
                  /\ result_count_ids' = Some(Counts(res)[1])
                  /\ result_count_booking_codes' = Some(Counts(res)[2])
                  /\ Return("update")
                  /\ executed' = TRUE
       /\ UNCHANGED <<bound, _query_category, _id_range, _engine, _query, data, clock>>

\* update(), on a host at the given offset from UTC.
update(up, utcoffset) ==
    LET now_ == get_current_timestamp(clock, utcoffset)
    IN IF ~CanExecute(Val(_engine), Val(_query), up) THEN Raise("update", "DBError")
       ELSE LET res == QueryResult(execute_query(Val(_engine), Val(_query), data))
            IN /\ result' = Some(res)
               /\ result_count_ids' = Some(Counts(res)[1])
               /\ result_count_booking_codes' = Some(Counts(res)[2])
               /\ updated_at' = Some(now_)
               /\ Return("update")
               /\ executed' = TRUE
               /\ UNCHANGED <<bound, _query_category, _id_range, _engine, _query,
                              data, clock>>

\* -------------------------------------------------------------- actions
Construct ==
    /\ ~bound
    /\ \E c \in CategoryInputs, r \in RangeInputs, up \in BOOLEAN : init(c, r, up)
    /\ UNCHANGED helpers

SetCategory ==
    /\ bound
    /\ \E c \in CategoryInputs : set_query_category(c)
    /\ UNCHANGED helpers

SetIdRange ==
    /\ bound
    /\ \E r \in RangeInputs : set_id_range(r)
    /\ UNCHANGED helpers

Update ==
    /\ bound
    /\ \E up \in BOOLEAN, off \in UtcOffsets : update(up, off)
    /\ UNCHANGED helpers

Tick ==
    /\ clock < MaxClock
    /\ clock' = clock + 1
    /\ UNCHANGED <<bound, handler, data, op, raised, had_result, executed, helpers>>

\* The rows of the recipes in the first specification: per recipe one row
\* for every identifier, the first identifier under one code and the rest
\* under the other.
RecipeOrder == <<"mysql_trips", "mysql_open", "mysql_cnx", "bigquery_trips", "bigquery_cnx">>
Fixture ==
    [k \in 1..(Len(RecipeOrder) * MaxId) |->
        LET i == ((k - 1) % MaxId) + 1
        IN [recipe |-> RecipeOrder[((k - 1) \div MaxId) + 1],
            id |-> i,
            code |-> IF i = 1 THEN "AB1" ELSE "CD2"]]

Unbound ==
    /\ bound = FALSE
    /\ _query_category = None
    /\ _id_range = None
    /\ _engine = None
    /\ _query = None
    /\ result = None
    /\ result_count_ids = None
    /\ result_count_booking_codes = None
    /\ updated_at = None
    /\ clock = 0
    /\ op = "start"
    /\ raised = "none"
    /\ had_result = FALSE
    /\ executed = FALSE

\* No helper has been called, and the helpers' inputs are empty.
HelpersIdle ==
    /\ trips = {}
    /\ bq_engine = None
    /\ bq_id_range = None
    /\ dict_a = <<>>
    /\ dict_b = <<>>
    /\ sym_diff = None

Init == Unbound /\ HelpersIdle /\ data = Fixture

Next == Construct \/ SetCategory \/ SetIdRange \/ Update \/ Tick

Spec == Init /\ [][Next]_vars

\* The second specification follows a handler built with valid arguments
\* for one recipe while the rows of that recipe come and go.
DataRecipes == {"mysql_trips"}
DataRows == {row \in Rows : row.recipe \in DataRecipes}

ConstructValid ==
    /\ ~bound
    /\ \E c \in DataRecipes, r \in {x \in RangeInputs : ValidRange(x)}, up \in BOOLEAN :
          init(c, r, up)
    /\ UNCHANGED helpers

BackendWrite(rows) ==
    /\ data' = rows
    /\ op' = "backend_write"
    /\ raised' = "none"
    /\ had_result' = IsSet(result)
    /\ executed' = FALSE
    /\ UNCHANGED <<bound, handler, clock>>

BackendInsert ==
    /\ Len(data) < MaxRows
    /\ \E row \in DataRows : BackendWrite(Append(data, row))
    /\ UNCHANGED helpers

BackendDelete ==
    /\ \E k \in 1..Len(data) :
          BackendWrite(SubSeq(data, 1, k - 1) \o SubSeq(data, k + 1, Len(data)))
    /\ UNCHANGED helpers

InitData == Unbound /\ HelpersIdle /\ data = <<>>

NextData == ConstructValid \/ Update \/ BackendInsert \/ BackendDelete

SpecData == InitData /\ [][NextData]_vars

\* ------------------------------------------- get_bq_trip_id_range
\* The third specification follows calls of get_bq_trip_id_range while
\* rows are added to base_reporting_trips.
Dates == 0..MaxDate
TripRows == [trip_id_trip : Ids, booking_meta_state : {"BOOKED", "CANCELLED"},
             booking_date : Dates]

\* The rows the helper's WHERE clause keeps.
BookedBetween(rows, date_min, date_max) ==
    {r \in rows : /\ r.booking_meta_state = "BOOKED"
                  /\ date_min <= r.booking_date /\ r.booking_date <= date_max}

\* The one row of SELECT min(trip_id_trip), max(trip_id_trip): both NULL
\* when no row is kept.
MinMaxRow(kept) ==
    IF kept = {} THEN <<None, None>>
    ELSE LET ids == {r.trip_id_trip : r \in kept}
         IN <<Some(CHOOSE i \in ids : \A j \in ids : i <= j),
              Some(CHOOSE i \in ids : \A j \in ids : j <= i)>>

\* What a call of the helper leaves behind.
HelperCall(exc, engine, ran, returned) ==
    /\ op' = "get_bq_trip_id_range"
    /\ raised' = exc
    /\ bq_engine' = engine
    /\ executed' = ran
    /\ bq_id_range' = returned
    /\ UNCHANGED <<bound, handler, data, clock, had_result, trips, dict_a, dict_b, sym_diff>>

\* As get_bq_trip_id_range, but equal dates pass the test.
get_bq_trip_id_range_strict(date_min, date_max, up_table, up_query) ==
    IF date_min > date_max THEN HelperCall("ValueError", None, FALSE, None)
    ELSE IF ~up_table THEN HelperCall("DBError", Some(get_engine_bigquery), FALSE, None)
    ELSE IF ~up_query THEN HelperCall("DBError", Some(get_engine_bigquery), FALSE, None)
    ELSE HelperCall("none", Some(get_engine_bigquery), TRUE,
                    Some(MinMaxRow(BookedBetween(trips, date_min, date_max))))

\* get_bq_trip_id_range(date_min, date_max), with the backend reachable or
\* not when the table is loaded and when the query is executed.
get_bq_trip_id_range(date_min, date_max, up_table, up_query) ==
    IF date_min >= date_max THEN HelperCall("ValueError", None, FALSE, None)
    ELSE IF ~up_table THEN HelperCall("DBError", Some(get_engine_bigquery), FALSE, None)
    ELSE IF ~up_query THEN HelperCall("DBError", Some(get_engine_bigquery), FALSE, None)
    ELSE HelperCall("none", Some(get_engine_bigquery), TRUE,
                    Some(MinMaxRow(BookedBetween(trips, date_min, date_max))))

GetBqTripIdRange ==
    \E date_min \in Dates, date_max \in Dates, up_table \in BOOLEAN, up_query \in BOOLEAN :
        get_bq_trip_id_range(date_min, date_max, up_table, up_query)

TripInsert ==
    /\ Cardinality(trips) < MaxRows
    /\ \E row \in TripRows : row \notin trips /\ trips' = trips \cup {row}
    /\ UNCHANGED <<bound, handler, data, clock, op, raised, had_result, executed,
                   bq_engine, bq_id_range, dict_a, dict_b, sym_diff>>

InitDates == Unbound /\ HelpersIdle /\ data = <<>>

NextDates == GetBqTripIdRange \/ TripInsert

SpecDates == InitDates /\ [][NextDates]_vars

\* ------------------------------------- get_dict_symmetric_difference
\* The fourth specification calls get_dict_symmetric_difference on every
\* pair of dictionaries from identifiers to codes.
Dicts == UNION {[keys -> Codes] : keys \in SUBSET Ids}

\* dict.update: b's entries over a's.
dict_update(a, b) ==
    [k \in DOMAIN a \cup DOMAIN b |-> IF k \in DOMAIN b THEN b[k] ELSE a[k]]

\* del d[key] for every key of a set.
del_keys(d, keys) == [k \in DOMAIN d \ keys |-> d[k]]

\* As get_dict_symmetric_difference, but result is dict_a itself, not a copy.
get_dict_symmetric_difference_no_copy(a, b) ==
    LET updated == dict_update(a, b)
        result_ == del_keys(updated, DOMAIN a \cap DOMAIN b)
    IN [result |-> result_, dict_a |-> result_, dict_b |-> b]

\* get_dict_symmetric_difference(dict_a, dict_b): what it returns and what
\* it leaves in the two dictionaries it was given.
get_dict_symmetric_difference(a, b) ==
    LET copy == a
        updated == dict_update(copy, b)
        result_ == del_keys(updated, DOMAIN a \cap DOMAIN b)
    IN [result |-> result_, dict_a |-> a, dict_b |-> b]

GetDictSymmetricDifference ==
    /\ op' = "get_dict_symmetric_difference"
    /\ raised' = "none"
    /\ LET out == get_dict_symmetric_difference(dict_a, dict_b)
       IN /\ sym_diff' = Some(out.result)
          /\ dict_a' = out.dict_a
          /\ dict_b' = out.dict_b
    /\ UNCHANGED <<bound, handler, data, clock, had_result, executed,
                   trips, bq_engine, bq_id_range>>

\* The caller holds any two dictionaries.
InitDiff ==
    /\ Unbound
    /\ data = <<>>
    /\ trips = {}
    /\ bq_engine = None
    /\ bq_id_range = None
    /\ dict_a \in Dicts
    /\ dict_b \in Dicts
    /\ sym_diff = None

NextDiff == GetDictSymmetricDifference

SpecDiff == InitDiff /\ [][NextDiff]_vars

\* ---------------------------------------------------------------- steps
\* A call returns or raises in one step; the clock and the backends' rows
\* move in steps of their own, which leave op as it was or name themselves.
CallStep == clock' = clock /\ data' = data
Returned(name) == CallStep /\ op' = name /\ raised' = "none"
Rejected(name, exc) == CallStep /\ op' = name /\ raised' = exc
AllUnset ==
    /\ result = None
    /\ result_count_ids = None
    /\ result_count_booking_codes = None
    /\ updated_at = None

\* ------------------------------------------------------------------- C1
\* C1: in every state of a handler the stored plan is the plan of the
\* current (category, id_range) and the stored engine is the backend the
\* current category's prefix selects.
C1_PlanFollowsConfiguration ==
    bound =>
        /\ _query = get_query(Val(_query_category), Val(_id_range))
        /\ _engine = get_engine(Val(_query_category))

\* ------------------------------------------------------------------- C2
\* C2: a category assignment that changes the category, and an id_range
\* assignment that is accepted, leave result, both counts and updated_at
\* unset, and once unset they become set only by an update() that returns.
C2_AssignmentClearsResults ==
    [][/\ (Returned("set_id_range") => AllUnset')
       /\ ((Returned("set_category") /\ _query_category' # _query_category) => AllUnset')
       /\ ((AllUnset /\ ~Returned("update")) => AllUnset')]_vars

C2_Witness ==
    /\ op \in {"set_id_range", "set_category"}
    /\ raised = "none"
    /\ had_result
    /\ AllUnset

\* ------------------------------------------------------------------- C3
\* C3: an update() whose execution fails raises, and result, both counts
\* and updated_at are what they were before the call.
C3_FailedUpdateKeepsResults ==
    [][Rejected("update", "DBError") => UNCHANGED results]_vars

C3_Witness ==
    /\ op = "update"
    /\ raised = "DBError"
    /\ had_result
    /\ IsSet(result)
    /\ IsSet(updated_at)

\* ------------------------------------------------------------------- C4
\* C4: the id_range a handler stores satisfies 0 < low < high, whether it
\* came from the constructor or from an assignment.
C4_StoredRangeValid == bound => ValidRange(Val(_id_range))

\* ------------------------------------------------------------------- C5
\* C5: the category a handler stores is a member of QUERY_CATEGORIES.
C5_StoredCategoryValid == bound => Val(_query_category) \in QUERY_CATEGORIES

\* ------------------------------------------------------------------- C6
\* C6: after an update() that returned with the rows R, result has exactly
\* the identifiers of R as keys, each mapped to the code of the last row of
\* R that carries it; result_count_ids is the number of those identifiers
\* and result_count_booking_codes the number of distinct codes they map to.
RowsReturned == execute_query(Val(_engine), Val(_query), data)
LastRowOf(R, i) ==
    CHOOSE k \in 1..Len(R) : R[k][1] = i /\ \A j \in (k + 1)..Len(R) : R[j][1] # i
C6_ResultIsLastWriteWins ==
    (bound /\ op = "update" /\ raised = "none") =>
        LET R == RowsReturned
            keys == {R[k][1] : k \in 1..Len(R)}
        IN /\ IsSet(result)
           /\ DOMAIN Val(result) = keys
           /\ \A i \in keys : Val(result)[i] = R[LastRowOf(R, i)][2]
           /\ result_count_ids = Some(Cardinality(keys))
           /\ result_count_booking_codes =
                  Some(Cardinality({R[LastRowOf(R, i)][2] : i \in keys}))

\* Two rows carry one identifier under different codes, and the later won.
C6_Witness ==
    /\ bound /\ op = "update" /\ raised = "none"
    /\ \E j, k \in 1..Len(RowsReturned) :
          /\ j < k
          /\ RowsReturned[j][1] = RowsReturned[k][1]
          /\ RowsReturned[j][2] # RowsReturned[k][2]
          /\ Val(result)[RowsReturned[k][1]] = RowsReturned[k][2]

\* ------------------------------------------------------------------- C7
\* C7: whenever the counts are set, result_count_booking_codes is at most
\* result_count_ids.
C7_CodesAtMostIds ==
    (IsSet(result_count_ids) /\ IsSet(result_count_booking_codes)) =>
        Val(result_count_booking_codes) <= Val(result_count_ids)

\* One code shared by two identifiers: strictly fewer codes than ids.
C7_Witness ==
    /\ IsSet(result_count_ids)
    /\ Val(result_count_ids) = 2
    /\ Val(result_count_booking_codes) = 1

\* ------------------------------------------------------------------- C8
\* C8: while the backends' rows stay as they are, an update() that returns
\* on a handler whose result is still set (no assignment has cleared it
\* since the update() that set it) leaves result and both counts as they
\* were; updated_at may change.
C8_UpdateIdempotent ==
    [][(IsSet(result) /\ Returned("update")) =>
          UNCHANGED <<result, result_count_ids, result_count_booking_codes>>]_vars

\* A later update() returned on a handler that held a populated result,
\* at a later time than the one that had set it.
C8_Witness ==
    /\ op = "update" /\ raised = "none" /\ had_result
    /\ IsSet(result)
    /\ Val(result_count_ids) > 0
    /\ clock > 0
    /\ \E off \in UtcOffsets : updated_at = Some(get_current_timestamp(clock, off))

\* ------------------------------------------------------------------- C9
\* C9: assigning to query_category the value the handler holds raises
\* nothing and leaves every field of the handler as it was.
C9_SameCategoryIsNoop ==
    [][\A c \in CategoryInputs :
          (bound /\ _query_category = Some(c) /\ set_query_category(c)) =>
              (raised' = "none" /\ UNCHANGED handler)]_vars

\* ------------------------------------------------------------------ C10
\* C10: an assignment to query_category or to id_range that raises leaves
\* every field of the handler as it was.
C10_RejectedAssignmentChangesNothing ==
    [][(Rejected("set_category", "ValueError") \/ Rejected("set_id_range", "ValueError"))
          => UNCHANGED handler]_vars

C10_Witness ==
    /\ op \in {"set_category", "set_id_range"}
    /\ raised = "ValueError"
    /\ had_result
    /\ IsSet(result)

\* ------------------------------------------------------------------ C11
\* C11: a call of get_bq_trip_id_range with date_min >= date_max raises
\* ValueError, having made no engine, executed no query and returned
\* nothing.
C11_BadDatesRaiseBeforeBackend ==
    [][\A date_min \in Dates, date_max \in Dates, up_table \in BOOLEAN, up_query \in BOOLEAN :
          (date_min >= date_max
              /\ get_bq_trip_id_range(date_min, date_max, up_table, up_query)) =>
              /\ raised' = "ValueError"
              /\ bq_engine' = None
              /\ executed' = FALSE
              /\ bq_id_range' = None]_vars

\* A rejected call, with rows in the table.
C11_Witness ==
    /\ op = "get_bq_trip_id_range"
    /\ raised = "ValueError"
    /\ bq_engine = None
    /\ ~executed
    /\ trips # {}

\* ------------------------------------------------------------------ C12
\* C12: get_dict_symmetric_difference(a, b) returns the dictionary whose
\* keys are those in exactly one of a and b, each with the value of the
\* dictionary that holds it, and leaves a and b as they were.
C12_SymmetricDifference ==
    [][op' = "get_dict_symmetric_difference" =>
          /\ dict_a' = dict_a
          /\ dict_b' = dict_b
          /\ IsSet(sym_diff')
          /\ LET d == Val(sym_diff')
                 only_a == DOMAIN dict_a \ DOMAIN dict_b
                 only_b == DOMAIN dict_b \ DOMAIN dict_a
             IN /\ DOMAIN d = only_a \cup only_b
                /\ \A k \in only_a : d[k] = dict_a[k]
                /\ \A k \in only_b : d[k] = dict_b[k]]_vars

\* A key of each side is kept and a shared key with two values is left out.
C12_Witness ==
    /\ op = "get_dict_symmetric_difference"
    /\ IsSet(sym_diff)
    /\ \E k \in DOMAIN dict_a \cap DOMAIN dict_b :
          dict_a[k] # dict_b[k] /\ k \notin DOMAIN Val(sym_diff)
    /\ \E k \in DOMAIN dict_a \ DOMAIN dict_b : Val(sym_diff)[k] = dict_a[k]
    /\ \E k \in DOMAIN dict_b \ DOMAIN dict_a : Val(sym_diff)[k] = dict_b[k]

\* ------------------------------------------------------------------ C13
\* C13: after an update() that returned, updated_at is the ISO rendering,
\* in UTC, of the whole second the UTC wall clock showed during the call.
C13_TimestampIsUtc ==
    [][Returned("update") =>
          updated_at' = Some(<<clock \div TicksPerSecond, "+00:00">>)]_vars

\* ------------------------------------------------------------------ C14
\* C14: a constructor call that returns leaves result, both counts and
\* updated_at unset and has executed no data query, and each of the four
\* fields goes from unset to set only in an update() that returns.
C14_OnlyUpdatePopulates ==
    [][/\ (Returned("construct") => (AllUnset' /\ ~executed'))
       /\ ((\/ (result = None /\ result' # None)
            \/ (result_count_ids = None /\ result_count_ids' # None)
            \/ (result_count_booking_codes = None /\ result_count_booking_codes' # None)
            \/ (updated_at = None /\ updated_at' # None))
           => Returned("update"))]_vars

C14_Witness ==
    /\ bound
    /\ op = "construct"
    /\ raised = "none"
    /\ AllUnset
    /\ ~executed

\* ------------------------------------------------------------------ C15
\* C15: whenever result is set, each of its identifiers lies within the
\* handler's current id_range, bounds included.
C15_ResultWithinCurrentRange ==
    IsSet(result) =>
        \A i \in DOMAIN Val(result) :
            Val(_id_range)[1] <= i /\ i <= Val(_id_range)[2]

\* ------------------------------------------------------------------ C16
\* C16: result, both counts and updated_at are all unset or all set.
AllSet ==
    /\ result # None
    /\ result_count_ids # None
    /\ result_count_booking_codes # None
    /\ updated_at # None
C16_AllOrNothing == AllUnset \/ AllSet

\* An update() failed on a handler that had never been updated.
C16_Witness ==
    /\ bound
    /\ op = "update"
    /\ raised = "DBError"
    /\ ~had_result
    /\ AllUnset
====
